---------------------------- MODULE Spec2Model ----------------------------
(***************************************************************************)
(* A model of cherimoya_cdk/utils.py: the naming helpers (gen_name,        *)
(* stage_based_removal_policy), the keyword-argument helpers (get_params,  *)
(* filter_kwargs, remove_params) and setup_logger.                         *)
(*                                                                         *)
(* A Python str is a sequence of one-character strings, so that lower(),   *)
(* replace() and startswith() are computed and not assumed.  A Python      *)
(* value is a record tagged with its type.                                 *)
(***************************************************************************)
EXTENDS Integers, Sequences, FiniteSets, TLC

VARIABLES
    stack,        \* naming: the Stack that Stack.of(scope) returns
    nameCall,     \* naming: the last gen_name call and what it returned
    policyCall,   \* naming: the last stage_based_removal_policy call
    allvars,      \* get_params: the locals() snapshot handed to get_params
    gpCall,       \* get_params: the outcome of the last get_params call
    fk_kwargs,    \* filter_kwargs: the dictionary handed to filter_kwargs
    fkCall,       \* filter_kwargs: the last call and the dictionary returned
    rp_kwargs,    \* remove_params: the dictionary remove_params mutates
    rpCall,       \* remove_params: the last call, the dictionary before it
    loggers,      \* logging: the process-wide registry, logger -> level, handlers
    lastCall,     \* logging: the last completed setup_logger call (one caller)
    frames        \* logging: each thread's setup_logger call in progress

namingVars == <<stack, nameCall, policyCall>>
paramsVars == <<allvars, gpCall>>
filterVars == <<fk_kwargs, fkCall>>
removeVars == <<rp_kwargs, rpCall>>
logVars == <<loggers, lastCall, frames>>
vars == <<stack, nameCall, policyCall, allvars, gpCall, fk_kwargs, fkCall,
          rp_kwargs, rpCall, loggers, lastCall, frames>>

---------------------------------------------------------------------------
(* Python values and str methods *)

\* Python values: None, a str, an int, a dict, an instance of a class (with the
\* truth value bool() gives it)
PyNone == [kind |-> "none"]
PyStr(s) == [kind |-> "str", s |-> s]
PyInt(n) == [kind |-> "int", n |-> n]
Dict(d) == [kind |-> "dict", d |-> d]
Obj(cls, truthy) == [kind |-> "obj", cls |-> cls, truthy |-> truthy]

UpperAlpha == <<"A","B","C","D","E","F","G","H","I","J","K","L","M",
                "N","O","P","Q","R","S","T","U","V","W","X","Y","Z">>
LowerAlpha == <<"a","b","c","d","e","f","g","h","i","j","k","l","m",
                "n","o","p","q","r","s","t","u","v","w","x","y","z">>

LowerChar(c) ==
    IF \E i \in DOMAIN UpperAlpha : UpperAlpha[i] = c
    THEN LowerAlpha[CHOOSE i \in DOMAIN UpperAlpha : UpperAlpha[i] = c]
    ELSE c

\* str.lower()
PyLower(s) == [i \in 1..Len(s) |-> LowerChar(s[i])]

\* s[i..] starts with old (i is 1-based)
MatchAt(s, old, i) ==
    /\ i + Len(old) - 1 <= Len(s)
    /\ \A j \in 1..Len(old) : s[i + j - 1] = old[j]

\* str.startswith(prefix)
PyStartsWith(s, prefix) == MatchAt(s, prefix, 1)

\* str.replace(old, new, count); count = -1 replaces every occurrence
RECURSIVE PyReplace(_, _, _, _)
PyReplace(s, old, new, count) ==
    IF count = 0 THEN s
    ELSE IF old = <<>> THEN
        IF s = <<>> THEN new
        ELSE new \o <<Head(s)>> \o PyReplace(Tail(s), old, new, count - 1)
    ELSE IF \E i \in 1..Len(s) : MatchAt(s, old, i) THEN
        LET i == CHOOSE k \in 1..Len(s) :
                    /\ MatchAt(s, old, k)
                    /\ \A m \in 1..(k - 1) : ~MatchAt(s, old, m)
        IN  SubSeq(s, 1, i - 1) \o new
              \o PyReplace(SubSeq(s, i + Len(old), Len(s)), old, new, count - 1)
    ELSE s

---------------------------------------------------------------------------
(* gen_name and stage_based_removal_policy *)

\* gen_name with the stage appended after the clean-up instead of before it
gen_name_stage_last(stk, id, globalize, all_lower, clean_string) ==
    LET r0 == stk.stack_name \o <<"-">> \o id
        r1 == IF all_lower THEN PyLower(r0) ELSE r0
        r2 == IF clean_string
              THEN PyReplace(PyReplace(r1, <<"_">>, <<"-">>, -1), <<".">>, <<"-">>, -1)
              ELSE r1
    IN  IF globalize /\ stk.hasStage /\ stk.stage.kind # "none"
        THEN r2 \o <<"-">> \o stk.stage.s
        ELSE r2

gen_name(stk, id, globalize, all_lower, clean_string) ==
    LET r0 == stk.stack_name \o <<"-">> \o id
        r1 == IF globalize /\ stk.hasStage
              THEN IF stk.stage.kind # "none"
                   THEN r0 \o <<"-">> \o stk.stage.s
                   ELSE r0
              ELSE r0
        r2 == IF all_lower THEN PyLower(r1) ELSE r1
        r3 == IF clean_string
              THEN PyReplace(PyReplace(r2, <<"_">>, <<"-">>, -1), <<".">>, <<"-">>, -1)
              ELSE r2
    IN  r3

PROD == <<"P","R","O","D">>

\* the policy chosen by a case-insensitive comparison of the stage
removal_policy_any_case(stk) ==
    IF stk.hasStage /\ stk.stage.kind # "none" /\ PyLower(stk.stage.s) = PyLower(PROD)
    THEN "RETAIN"
    ELSE "DESTROY"

stage_based_removal_policy(stk) ==
    IF stk.hasStage
    THEN IF stk.stage = PyStr(PROD) THEN "RETAIN" ELSE "DESTROY"
    ELSE "DESTROY"

StackNames == { <<"S">>, <<"M","y","_","S","t",".","K">> }
Stages == { PyNone, PyStr(<<>>), PyStr(<<"d","e","v">>), PyStr(PROD),
            PyStr(<<"p","r","o","d">>), PyStr(<<"P","r","o","d">>),
            PyStr(<<"Q","_","a",".","1">>) }
Ids == { <<"i","d">>, <<"B","_","k",".","T">>, <<>> }
Stacks ==
    { [stack_name |-> n, hasStage |-> FALSE, stage |-> PyNone] : n \in StackNames }
      \cup
    { [stack_name |-> n, hasStage |-> TRUE, stage |-> st] :
          n \in StackNames, st \in Stages }

\* the state of the helpers a specification does not exercise
EmptyDict == [k \in {} |-> 0]
NoGpCall == [called |-> FALSE, raised |-> FALSE, result |-> EmptyDict]
NoFkCall == [called |-> FALSE, kwargs |-> <<>>, filter |-> <<>>, result |-> <<>>]
NoRpCall == [called |-> FALSE, before |-> EmptyDict, params |-> <<>>,
             raised |-> FALSE, at |-> 0]
NoNameCall == [called |-> FALSE, id |-> <<>>, globalize |-> FALSE,
               all_lower |-> FALSE, clean_string |-> FALSE, result |-> <<>>]
NoPolicyCall == [called |-> FALSE, result |-> "DESTROY"]
NamingIdle ==
    /\ stack = [stack_name |-> <<"S">>, hasStage |-> FALSE, stage |-> PyNone]
    /\ nameCall = NoNameCall
    /\ policyCall = NoPolicyCall
ParamsIdle == allvars = EmptyDict /\ gpCall = NoGpCall
FilterIdle == fk_kwargs = <<>> /\ fkCall = NoFkCall
RemoveIdle == rp_kwargs = EmptyDict /\ rpCall = NoRpCall
NoLogCall == [called |-> FALSE, retry |-> FALSE, raised |-> FALSE]
LogIdle ==
    /\ loggers = EmptyDict
    /\ lastCall = NoLogCall
    /\ frames = <<>>

InitNaming ==
    /\ stack \in Stacks
    /\ nameCall = NoNameCall
    /\ policyCall = NoPolicyCall
    /\ ParamsIdle /\ FilterIdle /\ RemoveIdle /\ LogIdle

GenName ==
    \E id \in Ids, g \in BOOLEAN, l \in BOOLEAN, c \in BOOLEAN :
        /\ nameCall' = [called |-> TRUE, id |-> id, globalize |-> g,
                        all_lower |-> l, clean_string |-> c,
                        result |-> gen_name(stack, id, g, l, c)]
        /\ UNCHANGED <<stack, policyCall, paramsVars, filterVars, removeVars, logVars>>

RemovalPolicy ==
    /\ policyCall' = [called |-> TRUE,
                      result |-> stage_based_removal_policy(stack)]
    /\ UNCHANGED <<stack, nameCall, paramsVars, filterVars, removeVars, logVars>>

NextNaming == GenName \/ RemovalPolicy

SpecNaming == InitNaming /\ [][NextNaming]_vars

---------------------------------------------------------------------------
(* C8 *)

CleanChar(c) == IF c \in {"_", "."} THEN "-" ELSE c

\* what the documentation gives for the last gen_name call, before case
\* folding and clean-up
ExpectedBase ==
    stack.stack_name \o <<"-">> \o nameCall.id
      \o (IF nameCall.globalize /\ stack.hasStage /\ stack.stage.kind # "none"
          THEN <<"-">> \o stack.stage.s
          ELSE <<>>)

\* C8: gen_name returns "S-id", extended with "-stage" exactly when
\* globalize is set and the stack has a stage that is not None; every
\* character of that string is lower-cased when all_lower is set and then
\* "_" and "." become "-" when clean_string is set.
C8_GenName ==
    nameCall.called =>
        /\ Len(nameCall.result) = Len(ExpectedBase)
        /\ \A i \in 1..Len(ExpectedBase) :
              LET c0 == ExpectedBase[i]
                  c1 == IF nameCall.all_lower THEN LowerChar(c0) ELSE c0
                  c2 == IF nameCall.clean_string THEN CleanChar(c1) ELSE c1
              IN  nameCall.result[i] = c2

\* a globalized, lower-cased, cleaned name whose stage holds an upper-case
\* letter, "_" and "."
C8_Witness ==
    /\ nameCall.called
    /\ nameCall.globalize /\ nameCall.all_lower /\ nameCall.clean_string
    /\ stack.hasStage
    /\ stack.stage = PyStr(<<"Q","_","a",".","1">>)
    /\ nameCall.id = <<"B","_","k",".","T">>

(* C9 *)

\* C9: the policy is RETAIN exactly when the stack has a stage attribute
\* equal to "PROD", and DESTROY in every other case.
C9_RemovalPolicy ==
    policyCall.called =>
        /\ policyCall.result \in {"RETAIN", "DESTROY"}
        /\ policyCall.result = "RETAIN"
              <=> (stack.hasStage /\ stack.stage.kind # "none" /\ stack.stage.s = PROD)

C9_Witness ==
    /\ policyCall.called
    /\ policyCall.result = "DESTROY"
    /\ stack.hasStage
    /\ stack.stage = PyStr(<<"p","r","o","d">>)

---------------------------------------------------------------------------
(* get_params *)

\* bool(v)
Truthy(v) ==
    CASE v.kind = "obj" -> v.truthy
      [] v.kind = "dict" -> DOMAIN v.d # {}
      [] v.kind = "int" -> v.n # 0
      [] v.kind = "str" -> v.s # <<>>
      [] OTHER -> FALSE

\* dict.get(k)
PyGet(d, k) == IF k \in DOMAIN d THEN d[k] ELSE PyNone

\* {**a, **b}
Overlay(a, b) ==
    [k \in DOMAIN a \cup DOMAIN b |-> IF k \in DOMAIN b THEN b[k] ELSE a[k]]

\* signature(cls.__init__).parameters, name -> kind, of the classes
\*   class Foo: def __init__(self, a, *, c=3, d=4, **kwargs)
\*   class Bar: def __init__(self, a, /, *, x=0, **kwargs)
Signature(cls) ==
    IF cls = "Foo"
    THEN [self |-> "POSITIONAL_OR_KEYWORD", a |-> "POSITIONAL_OR_KEYWORD",
          c |-> "KEYWORD_ONLY", d |-> "KEYWORD_ONLY", kwargs |-> "VAR_KEYWORD"]
    ELSE [self |-> "POSITIONAL_ONLY", a |-> "POSITIONAL_ONLY",
          x |-> "KEYWORD_ONLY", kwargs |-> "VAR_KEYWORD"]

\* get_params without the catch-all taking precedence: {**kwargs, **keyword-only}
get_params_snapshot_wins(av) ==
    IF ~Truthy(PyGet(av, "self")) \/ "kwargs" \notin DOMAIN av
    THEN [raised |-> TRUE, result |-> EmptyDict]
    ELSE
        LET kw0 == PyGet(av, "kwargs")
            kwargs == IF Truthy(kw0) THEN kw0.d ELSE EmptyDict
            parameters == Signature(av["self"].cls)
            kwonly == { k \in DOMAIN av :
                           /\ k \in DOMAIN parameters
                           /\ parameters[k] = "KEYWORD_ONLY" }
        IN  [raised |-> FALSE,
             result |-> Overlay(kwargs, [k \in kwonly |-> av[k]])]

\* get_params(allvars): raised is the AssertionError of either assert
get_params(av) ==
    IF ~Truthy(PyGet(av, "self")) THEN [raised |-> TRUE, result |-> EmptyDict]
    ELSE IF "kwargs" \notin DOMAIN av THEN [raised |-> TRUE, result |-> EmptyDict]
    ELSE
        LET kw0 == PyGet(av, "kwargs")
            kwargs == IF Truthy(kw0) THEN kw0.d ELSE EmptyDict
            cls == av["self"].cls
            parameters == Signature(cls)
            kwonly == { k \in DOMAIN av :
                           /\ k \in DOMAIN parameters
                           /\ parameters[k] = "KEYWORD_ONLY" }
        IN  [raised |-> FALSE,
             result |-> Overlay([k \in kwonly |-> av[k]], kwargs)]

\* the largest number of entries of a catch-all dictionary
MaxExtra == 2

LocalNames == {"a", "c", "d", "x"}
ExtraNames == {"self", "kwargs", "a", "d", "x"}
SelfValues == { Obj("Foo", TRUE), Obj("Foo", FALSE), Obj("Bar", TRUE) }
CatchAlls ==
    UNION { [D -> {PyInt(2)}] : D \in { E \in SUBSET ExtraNames : Cardinality(E) <= MaxExtra } }
KwargsValues == { PyNone } \cup { Dict(d) : d \in CatchAlls }

\* the snapshots: locals() of a constructor, with or without self and kwargs
Snapshots ==
    UNION { { Overlay(Overlay(loc, slf), kw) :
                slf \in { EmptyDict } \cup { [k \in {"self"} |-> v] : v \in SelfValues },
                kw \in { EmptyDict } \cup { [k \in {"kwargs"} |-> v] : v \in KwargsValues } } :
            loc \in UNION { [D -> {PyInt(1)}] : D \in SUBSET LocalNames } }

InitParams ==
    /\ allvars \in Snapshots
    /\ gpCall = NoGpCall
    /\ NamingIdle /\ FilterIdle /\ RemoveIdle /\ LogIdle

GetParams ==
    /\ gpCall' = [called |-> TRUE] @@ get_params(allvars)
    /\ UNCHANGED <<allvars, namingVars, filterVars, removeVars, logVars>>

NextParams == GetParams

SpecParams == InitParams /\ [][NextParams]_vars

(* C7 *)

HoldsInstance == "self" \in DOMAIN allvars /\ allvars["self"].kind = "obj"
HoldsCatchAll == "kwargs" \in DOMAIN allvars /\ allvars["kwargs"].kind = "dict"
CatchAll == allvars["kwargs"].d
KeywordOnly ==
    { k \in DOMAIN Signature(allvars["self"].cls) :
         Signature(allvars["self"].cls)[k] = "KEYWORD_ONLY" }

\* the keyword-only snapshot entries overlaid with the catch-all dictionary
ResultIsOverlay ==
    /\ DOMAIN gpCall.result = (DOMAIN allvars \cap KeywordOnly) \cup DOMAIN CatchAll
    /\ \A k \in DOMAIN gpCall.result :
          gpCall.result[k] = IF k \in DOMAIN CatchAll THEN CatchAll[k] ELSE allvars[k]

---------------------------------------------------------------------------
(* filter_kwargs *)

\* A dict whose iteration order matters is the sequence of its items
\* <<key, value>>, keys distinct, in insertion order.

\* d[k] = v
DictSet(d, k, v) ==
    IF \E i \in DOMAIN d : d[i][1] = k
    THEN [i \in DOMAIN d |-> IF d[i][1] = k THEN <<k, v>> ELSE d[i]]
    ELSE Append(d, <<k, v>>)

\* the dict comprehension of filter_kwargs over the items left to visit,
\* with every occurrence of the filter removed from a key
RECURSIVE comprehension_replace_all(_, _, _)
comprehension_replace_all(items, filter, acc) ==
    IF items = <<>> THEN acc
    ELSE LET k == Head(items)[1]
             v == Head(items)[2]
         IN  comprehension_replace_all(Tail(items), filter,
                 IF PyStartsWith(k, filter)
                 THEN DictSet(acc, PyReplace(k, filter, <<>>, -1), v)
                 ELSE acc)

\* the dict comprehension of filter_kwargs over the items left to visit
RECURSIVE comprehension(_, _, _)
comprehension(items, filter, acc) ==
    IF items = <<>> THEN acc
    ELSE LET k == Head(items)[1]
             v == Head(items)[2]
         IN  comprehension(Tail(items), filter,
                 IF PyStartsWith(k, filter)
                 THEN DictSet(acc, PyReplace(k, filter, <<>>, 1), v)
                 ELSE acc)

filter_kwargs(kw, filter) == comprehension(kw, filter, <<>>)

\* the longest key and the longest filter string
MaxKeyLen == 2
\* the largest number of items of the dictionary
MaxItems == 2

KeyAlphabet == {"a", "_"}
KeyStrings == UNION { [1..n -> KeyAlphabet] : n \in 0..MaxKeyLen }
ItemValues == {1, 2}
FilterDicts ==
    UNION { { d \in [1..n -> KeyStrings \X ItemValues] :
                \A i, j \in 1..n : d[i][1] = d[j][1] => i = j } :
            n \in 0..MaxItems }

InitFilter ==
    /\ fk_kwargs \in FilterDicts
    /\ fkCall = NoFkCall
    /\ NamingIdle /\ ParamsIdle /\ RemoveIdle /\ LogIdle

FilterKwargs ==
    \E filter \in KeyStrings :
        /\ fkCall' = [called |-> TRUE, kwargs |-> fk_kwargs, filter |-> filter,
                      result |-> filter_kwargs(fk_kwargs, filter)]
        /\ UNCHANGED <<fk_kwargs, namingVars, paramsVars, removeVars, logVars>>

NextFilter == FilterKwargs

SpecFilter == InitFilter /\ [][NextFilter]_vars

(* C6 *)

HasPrefix(k, p) == Len(k) >= Len(p) /\ SubSeq(k, 1, Len(p)) = p
DropPrefix(k, p) == SubSeq(k, Len(p) + 1, Len(k))

\* C6: the returned dictionary holds, for each input key that starts with the
\* prefix, that key without its leading prefix mapped to the original value,
\* and nothing else; the input dictionary is as it was when it was passed.
C6_FilterKwargs ==
    fkCall.called =>
        LET f == fkCall.filter
            r == fkCall.result
        IN  /\ fk_kwargs = fkCall.kwargs
            /\ \A i \in DOMAIN fk_kwargs :
                  HasPrefix(fk_kwargs[i][1], f) =>
                      \E j \in DOMAIN r :
                          r[j] = <<DropPrefix(fk_kwargs[i][1], f), fk_kwargs[i][2]>>
            /\ \A j \in DOMAIN r :
                  \E i \in DOMAIN fk_kwargs :
                      /\ HasPrefix(fk_kwargs[i][1], f)
                      /\ r[j] = <<DropPrefix(fk_kwargs[i][1], f), fk_kwargs[i][2]>>
            /\ \A i, j \in DOMAIN r : r[i][1] = r[j][1] => i = j

\* the prefix "a" occurs again inside the key "aa"; the key "_a" is dropped
C6_Witness ==
    /\ fkCall.called
    /\ fkCall.filter = <<"a">>
    /\ fk_kwargs = << <<<<"a","a">>, 1>>, <<<<"_","a">>, 2>> >>
    /\ fkCall.result = << <<<<"a">>, 1>> >>

---------------------------------------------------------------------------
(* remove_params *)

\* kwargs.pop(p) of a key that is present
Pop(d, p) == [k \in DOMAIN d \ {p} |-> d[k]]

\* [kwargs.pop(p) for p in params] from position i on: the dictionary left,
\* and whether and where pop raised KeyError
RECURSIVE PopFrom(_, _, _)
PopFrom(d, params, i) ==
    IF i > Len(params) THEN [kwargs |-> d, raised |-> FALSE, at |-> 0]
    ELSE IF params[i] \notin DOMAIN d THEN [kwargs |-> d, raised |-> TRUE, at |-> i]
    ELSE PopFrom(Pop(d, params[i]), params, i + 1)

\* remove_params that skips a key that is absent: kwargs.pop(p, None)
remove_params_lenient(d, params) ==
    [kwargs |-> [k \in DOMAIN d \ {params[i] : i \in DOMAIN params} |-> d[k]],
     raised |-> FALSE, at |-> 0]

\* remove_params that looks for absent keys before it removes anything
remove_params_checked_first(d, params) ==
    IF \E i \in DOMAIN params : params[i] \notin DOMAIN d
    THEN [kwargs |-> d, raised |-> TRUE,
          at |-> CHOOSE i \in DOMAIN params :
                     /\ params[i] \notin DOMAIN d
                     /\ \A j \in 1..(i - 1) : params[j] \in DOMAIN d]
    ELSE PopFrom(d, params, 1)

remove_params(d, params) == PopFrom(d, params, 1)

\* the longest sequence of keys to remove
MaxParams == 3

ParamKeys == {"a", "b", "c"}
RemoveDicts == UNION { [D -> ItemValues] : D \in SUBSET ParamKeys }
ParamSeqs == UNION { [1..n -> ParamKeys] : n \in 0..MaxParams }

InitRemove ==
    /\ rp_kwargs \in RemoveDicts
    /\ rpCall = NoRpCall
    /\ NamingIdle /\ ParamsIdle /\ FilterIdle /\ LogIdle

RemoveParams ==
    \E params \in ParamSeqs :
        LET out == remove_params(rp_kwargs, params)
        IN  /\ rp_kwargs' = out.kwargs
            /\ rpCall' = [called |-> TRUE, before |-> rp_kwargs, params |-> params,
                          raised |-> out.raised, at |-> out.at]
            /\ UNCHANGED <<namingVars, paramsVars, filterVars, logVars>>

NextRemove == RemoveParams

SpecRemove == InitRemove /\ [][NextRemove]_vars

(* C4 *)

Listed == { rpCall.params[i] : i \in DOMAIN rpCall.params }
AllListedPresent == Listed \subseteq DOMAIN rpCall.before
NoKeyListedTwice ==
    \A i, j \in DOMAIN rpCall.params : rpCall.params[i] = rpCall.params[j] => i = j
Restrict(d, K) == [k \in DOMAIN d \cap K |-> d[k]]

\* C4 as stated: when every listed key is present, whether or not a key is
\* listed twice, the call completes and leaves exactly the unlisted entries.
C4_Original ==
    (rpCall.called /\ AllListedPresent) =>
        /\ ~rpCall.raised
        /\ rp_kwargs = Restrict(rpCall.before, DOMAIN rpCall.before \ Listed)

\* C4 as amended: when every listed key is present the call completes exactly
\* when no key is listed twice, and then it leaves exactly the unlisted
\* entries with their values; a key listed twice raises KeyError at its
\* second occurrence.
C4_RemoveParams ==
    (rpCall.called /\ AllListedPresent) =>
        /\ ~rpCall.raised <=> NoKeyListedTwice
        /\ ~rpCall.raised =>
              rp_kwargs = Restrict(rpCall.before, DOMAIN rpCall.before \ Listed)
        /\ rpCall.raised =>
              /\ rpCall.at \in DOMAIN rpCall.params
              /\ \E j \in 1..(rpCall.at - 1) : rpCall.params[j] = rpCall.params[rpCall.at]

\* two different keys removed from a dictionary of three
C4_Witness ==
    /\ rpCall.called /\ ~rpCall.raised
    /\ DOMAIN rpCall.before = {"a", "b", "c"}
    /\ rpCall.params = <<"c", "a">>
    /\ DOMAIN rp_kwargs = {"b"}
    /\ rp_kwargs["b"] = rpCall.before["b"]

(* C5 *)

SomeListedAbsent == ~AllListedPresent
FirstAbsent ==
    CHOOSE i \in DOMAIN rpCall.params :
        /\ rpCall.params[i] \notin DOMAIN rpCall.before
        /\ \A j \in 1..(i - 1) : rpCall.params[j] \in DOMAIN rpCall.before
ListedBefore(i) == { rpCall.params[j] : j \in 1..(i - 1) }

\* C5 as stated: with a listed key absent the call raises, the dictionary has
\* lost exactly the keys listed before the first absent key, and every key
\* listed after it that the dictionary held is still present.
C5_Original ==
    (rpCall.called /\ SomeListedAbsent) =>
        /\ rpCall.raised
        /\ rp_kwargs = Restrict(rpCall.before,
                                DOMAIN rpCall.before \ ListedBefore(FirstAbsent))
        /\ \A j \in (FirstAbsent + 1)..Len(rpCall.params) :
              rpCall.params[j] \in DOMAIN rpCall.before
                  => rpCall.params[j] \in DOMAIN rp_kwargs

\* the first position whose key cannot be popped: absent from the dictionary
\* or already listed before
FirstFailing ==
    CHOOSE i \in DOMAIN rpCall.params :
        /\ \/ rpCall.params[i] \notin DOMAIN rpCall.before
           \/ rpCall.params[i] \in ListedBefore(i)
        /\ \A j \in 1..(i - 1) :
              /\ rpCall.params[j] \in DOMAIN rpCall.before
              /\ rpCall.params[j] \notin ListedBefore(j)

\* C5 as amended: with a listed key absent the call raises KeyError at the
\* first position whose key is absent or was listed before; the dictionary
\* has lost exactly the keys listed before that position and keeps every
\* other entry with its value.
C5_RemoveParamsFails ==
    (rpCall.called /\ SomeListedAbsent) =>
        /\ rpCall.raised
        /\ rpCall.at = FirstFailing
        /\ rp_kwargs = Restrict(rpCall.before,
                                DOMAIN rpCall.before \ ListedBefore(FirstFailing))

\* b is removed, then the absent c raises, and a, listed after c, is kept
C5_Witness ==
    /\ rpCall.called /\ rpCall.raised
    /\ DOMAIN rpCall.before = {"a", "b"}
    /\ rpCall.params = <<"b", "c", "a">>
    /\ rpCall.at = 2
    /\ DOMAIN rp_kwargs = {"a"}

---------------------------------------------------------------------------
(* setup_logger and the part of the logging module it calls *)

\* _DEFAULT_LOGLEVEL
DEFAULT_LOGLEVEL == <<"I","N","F","O">>
\* the format string used when none, or an empty one, is given
DEFAULT_FORMAT == <<"%","a","|","%","l","|","%","m">>
ROOT == <<"r","o","o","t">>

\* logging._nameToLevel; -1 for a str that names no level
NameToLevel(s) ==
    CASE s = <<"C","R","I","T","I","C","A","L">> -> 50
      [] s = <<"F","A","T","A","L">> -> 50
      [] s = <<"E","R","R","O","R">> -> 40
      [] s = <<"W","A","R","N">> -> 30
      [] s = <<"W","A","R","N","I","N","G">> -> 30
      [] s = <<"I","N","F","O">> -> 20
      [] s = <<"D","E","B","U","G">> -> 10
      [] s = <<"N","O","T","S","E","T">> -> 0
      [] OTHER -> -1

\* logging.getLevelName(level) of a str: the number of a level name, and
\* "Level <str>" for any other str
getLevelName(v) ==
    IF NameToLevel(v.s) # -1
    THEN PyInt(NameToLevel(v.s))
    ELSE PyStr(<<"L","e","v","e","l"," ">> \o v.s)

\* logging._checkLevel(level): the int of the level, or the error it raises
checkLevel(v) ==
    IF v.kind = "int" THEN [raised |-> FALSE, rv |-> v.n]
    ELSE IF v.kind = "str" /\ NameToLevel(v.s) # -1
         THEN [raised |-> FALSE, rv |-> NameToLevel(v.s)]
         ELSE [raised |-> TRUE, rv |-> -1]

\* the logger that logging.getLogger(name) returns: the root logger for None,
\* "" and (from Python 3.9 on) "root", the logger registered under the name
\* otherwise
LoggerFor(name) ==
    IF ~Truthy(name) THEN ROOT
    ELSE IF name.s = ROOT THEN ROOT
    ELSE name.s

\* os.environ.get("LOGLEVEL", _DEFAULT_LOGLEVEL)
EnvironGet(environ) ==
    IF environ.kind = "none" THEN PyStr(DEFAULT_LOGLEVEL) ELSE environ

\* the check made by comparing the handlers themselves with the name, which
\* no handler equals
handler_compared_with_name(lg, name) == \E i \in DOMAIN lg.handlers : lg.handlers[i] = name

\* any([_.name == name for _ in logger.handlers])
has_named_handler(lg, name) ==
    \E i \in DOMAIN lg.handlers : lg.handlers[i].name = name

\* Logger.addHandler that skips a handler whose name is already attached
addHandler_once_per_name(lg, hdlr) ==
    IF \E i \in DOMAIN lg.handlers : lg.handlers[i].name = hdlr.name
    THEN lg
    ELSE [lg EXCEPT !.handlers = Append(@, hdlr)]

\* Logger.addHandler(hdlr): hdlr is the StreamHandler just made, which is no
\* element of logger.handlers yet
addHandler(lg, hdlr) == [lg EXCEPT !.handlers = Append(@, hdlr)]

\* A call of setup_logger is a frame: its arguments, the LOGLEVEL of the
\* environment it runs in, its locals and the statement it is at.
NewFrame(name, level, formatstr, environ) ==
    [pc |-> "getLogger", name |-> name, level |-> level, formatstr |-> formatstr,
     environ |-> environ, logger |-> <<>>, handler |-> PyNone,
     found |-> FALSE, raised |-> FALSE]

\* logger = logging.getLogger(name); level resolved from LOGLEVEL when None
get_logger_step(reg, f) ==
    [reg |-> [reg EXCEPT ![LoggerFor(f.name)].created = TRUE],
     f |-> [f EXCEPT !.pc = "check",
                     !.logger = LoggerFor(f.name),
                     !.level = IF f.level.kind = "none"
                               THEN getLevelName(EnvironGet(f.environ))
                               ELSE f.level]]

\* the check with the logger's level set before it
check_step_level_first(reg, f) ==
    IF checkLevel(f.level).raised
    THEN [reg |-> reg, f |-> [f EXCEPT !.pc = "done", !.raised = TRUE]]
    ELSE LET reg1 == [reg EXCEPT ![f.logger].level = checkLevel(f.level).rv]
         IN  IF has_named_handler(reg1[f.logger], f.name)
             THEN [reg |-> reg1, f |-> [f EXCEPT !.pc = "done", !.found = TRUE]]
             ELSE [reg |-> reg1, f |-> [f EXCEPT !.pc = "setLevel"]]

\* if any(...): logger.info(...); return logger
check_step(reg, f) ==
    IF has_named_handler(reg[f.logger], f.name)
    THEN [reg |-> reg, f |-> [f EXCEPT !.pc = "done", !.found = TRUE]]
    ELSE [reg |-> reg, f |-> [f EXCEPT !.pc = "setLevel"]]

\* the level set without being checked: an unknown level is stored as 0
set_level_step_unchecked(reg, f) ==
    [reg |-> [reg EXCEPT ![f.logger].level =
                  IF checkLevel(f.level).raised THEN 0 ELSE checkLevel(f.level).rv],
     f |-> [f EXCEPT !.pc = "makeHandler",
                     !.level = IF checkLevel(f.level).raised THEN PyInt(0) ELSE f.level,
                     !.formatstr = IF Truthy(f.formatstr)
                                   THEN f.formatstr ELSE PyStr(DEFAULT_FORMAT)]]

\* formatstr = formatstr or <default>; logger.setLevel(level)
set_level_step(reg, f) ==
    IF checkLevel(f.level).raised
    THEN [reg |-> reg, f |-> [f EXCEPT !.pc = "done", !.raised = TRUE]]
    ELSE [reg |-> [reg EXCEPT ![f.logger].level = checkLevel(f.level).rv],
          f |-> [f EXCEPT !.pc = "makeHandler",
                          !.formatstr = IF Truthy(f.formatstr)
                                        THEN f.formatstr ELSE PyStr(DEFAULT_FORMAT)]]

\* handler = StreamHandler(sys.stderr); handler.name = name;
\* handler.setLevel(level); handler.setFormatter(Formatter(formatstr))
make_handler_step(reg, f) ==
    [reg |-> reg,
     f |-> [f EXCEPT !.pc = "addHandler",
                     !.handler = [name |-> f.name,
                                  level |-> checkLevel(f.level).rv,
                                  formatter |-> f.formatstr.s]]]

\* logger.addHandler(handler); logger.info(...); return logger
add_handler_step(reg, f) ==
    [reg |-> [reg EXCEPT ![f.logger] = addHandler(@, f.handler)],
     f |-> [f EXCEPT !.pc = "done"]]

Step(reg, f) ==
    CASE f.pc = "getLogger" -> get_logger_step(reg, f)
      [] f.pc = "check" -> check_step(reg, f)
      [] f.pc = "setLevel" -> set_level_step(reg, f)
      [] f.pc = "makeHandler" -> make_handler_step(reg, f)
      [] f.pc = "addHandler" -> add_handler_step(reg, f)

\* setup_logger run from a frame to its return or its exception
RECURSIVE Run(_, _)
Run(reg, f) ==
    IF f.pc = "done" THEN [reg |-> reg, f |-> f]
    ELSE LET s == Step(reg, f) IN Run(s.reg, s.f)

setup_logger(reg, name, level, formatstr, environ) ==
    Run(reg, NewFrame(name, level, formatstr, environ))

APP == <<"a","p","p">>
LoggerIds == { ROOT, APP }
LoggerNames == { PyNone, PyStr(ROOT), PyStr(APP) }
LevelArgs == { PyNone, PyInt(10), PyStr(<<"D","E","B","U","G">>), PyStr(<<"F","O","O">>) }
Environs == { PyNone, PyStr(<<"i","n","f","o">>) }
FormatArgs == { PyNone, PyStr(<<>>), PyStr(<<"%","m">>) }

\* the registry of a fresh process: the root logger at WARNING, no logger of
\* any other name created yet, no handlers
FreshRegistry ==
    [l \in LoggerIds |->
        IF l = ROOT
        THEN [created |-> TRUE, level |-> 30, handlers |-> <<>>]
        ELSE [created |-> FALSE, level |-> 0, handlers |-> <<>>]]

(* one caller: every call runs to its end before the next *)

InitLogger ==
    /\ loggers = FreshRegistry
    /\ lastCall = NoLogCall
    /\ frames = <<>>
    /\ NamingIdle /\ ParamsIdle /\ FilterIdle /\ RemoveIdle

SetupLogger ==
    \E name \in LoggerNames, level \in LevelArgs,
       formatstr \in FormatArgs, environ \in Environs :
        LET out == setup_logger(loggers, name, level, formatstr, environ)
        IN  /\ loggers' = out.reg
            /\ lastCall' = [called |-> TRUE, name |-> name, level |-> level,
                            formatstr |-> formatstr, environ |-> environ,
                            logger |-> out.f.logger, found |-> out.f.found,
                            raised |-> out.f.raised,
                            retry |-> lastCall.raised /\ lastCall.name = name]
            /\ UNCHANGED <<frames, namingVars, paramsVars, filterVars, removeVars>>

NextLogger == SetupLogger

SpecLogger == InitLogger /\ [][NextLogger]_vars


(* C1 *)

HandlersNamed(l, n) ==
    { i \in DOMAIN loggers[l].handlers : loggers[l].handlers[i].name = n }

\* C1: every logger has at most one handler of any given name, a handler sits
\* only on the logger that its name gives, and the logger a call returns is
\* that logger and has exactly one handler named as the call was.
C1_OneHandlerPerName ==
    /\ \A l \in LoggerIds, n \in LoggerNames : Cardinality(HandlersNamed(l, n)) <= 1
    /\ \A l \in LoggerIds : \A i \in DOMAIN loggers[l].handlers :
          LoggerFor(loggers[l].handlers[i].name) = l
    /\ (lastCall.called /\ ~lastCall.raised) =>
          /\ lastCall.logger = LoggerFor(lastCall.name)
          /\ Cardinality(HandlersNamed(lastCall.logger, lastCall.name)) = 1

\* a second call named "root" after calls named None and "root": the root
\* logger carries one handler of each name
C1_Witness ==
    /\ lastCall.called /\ lastCall.found
    /\ lastCall.name = PyStr(ROOT)
    /\ Len(loggers[ROOT].handlers) = 2
    /\ Cardinality(HandlersNamed(ROOT, PyStr(ROOT))) = 1

(* C2 *)

\* C2: a call for a name whose logger already has a handler of that name
\* changes nothing in the registry, raises nothing and returns that logger,
\* whatever level, format string and LOGLEVEL it gets.
C2_ReentryIsNoOp ==
    [][ (lastCall'.called /\ HandlersNamed(LoggerFor(lastCall'.name), lastCall'.name) # {})
          => /\ loggers' = loggers
             /\ lastCall'.found
             /\ ~lastCall'.raised
             /\ lastCall'.logger = LoggerFor(lastCall'.name) ]_vars

\* a re-entry that passes a level no logger accepts and a format string of
\* its own, on a logger configured at INFO with the default format
C2_Witness ==
    /\ lastCall.called /\ lastCall.found /\ ~lastCall.raised
    /\ lastCall.name = PyStr(APP)
    /\ lastCall.level = PyStr(<<"F","O","O">>)
    /\ lastCall.formatstr = PyStr(<<"%","m">>)
    /\ loggers[APP].level = 20
    /\ loggers[APP].handlers =
          << [name |-> PyStr(APP), level |-> 20, formatter |-> DEFAULT_FORMAT] >>

(* C10 *)

LevelNames ==
    { <<"C","R","I","T","I","C","A","L">>, <<"F","A","T","A","L">>,
      <<"E","R","R","O","R">>, <<"W","A","R","N">>, <<"W","A","R","N","I","N","G">>,
      <<"I","N","F","O">>, <<"D","E","B","U","G">>, <<"N","O","T","S","E","T">> }

\* the severity of a call is a str that names no level: the level argument,
\* or LOGLEVEL when no level is given
SeverityInvalid(c) ==
    IF c.level.kind = "none"
    THEN c.environ.kind = "str" /\ c.environ.s \notin LevelNames
    ELSE c.level.kind = "str" /\ c.level.s \notin LevelNames

Config(reg) == [l \in LoggerIds |-> [level |-> reg[l].level, handlers |-> reg[l].handlers]]

\* C10: a call for a name with no handler of that name yet, whose severity
\* names no level, raises and leaves every level and handler list as it was;
\* such a call with a valid severity does not raise and leaves exactly one
\* handler of that name.
C10_InvalidLevelFailsClean ==
    [][ (lastCall'.called /\ HandlersNamed(LoggerFor(lastCall'.name), lastCall'.name) = {})
          => IF SeverityInvalid(lastCall')
             THEN /\ lastCall'.raised
                  /\ Config(loggers') = Config(loggers)
             ELSE /\ ~lastCall'.raised
                  /\ ~lastCall'.found
                  /\ Len(loggers'[LoggerFor(lastCall'.name)].handlers)
                        = Len(loggers[LoggerFor(lastCall'.name)].handlers) + 1
                  /\ \E i \in DOMAIN loggers'[LoggerFor(lastCall'.name)].handlers :
                        loggers'[LoggerFor(lastCall'.name)].handlers[i].name = lastCall'.name
             ]_vars

\* "app" initialized with one handler by the call that follows a call for
\* "app" that raised
C10_Witness ==
    /\ lastCall.called /\ lastCall.retry /\ ~lastCall.raised /\ ~lastCall.found
    /\ lastCall.name = PyStr(APP)
    /\ Len(loggers[APP].handlers) = 1

(* several threads: each runs setup_logger once, statement by statement *)

\* the number of threads
NumThreads == 2

Threads == 1..NumThreads
ThreadNames == { PyNone, PyStr(APP) }
ThreadLevels == { PyNone, PyInt(10), PyStr(<<"F","O","O">>) }
IdleFrame ==
    [pc |-> "idle", name |-> PyNone, level |-> PyNone, formatstr |-> PyNone,
     environ |-> PyNone, logger |-> <<>>, handler |-> PyNone,
     found |-> FALSE, raised |-> FALSE]

InitThreads ==
    /\ loggers = FreshRegistry
    /\ lastCall = NoLogCall
    /\ frames = [t \in Threads |-> IdleFrame]
    /\ NamingIdle /\ ParamsIdle /\ FilterIdle /\ RemoveIdle

Others == <<lastCall, namingVars, paramsVars, filterVars, removeVars>>

Call ==
    \E t \in Threads, name \in ThreadNames, level \in ThreadLevels :
        /\ frames[t].pc = "idle"
        /\ frames' = [frames EXCEPT ![t] = NewFrame(name, level, PyNone, PyNone)]
        /\ UNCHANGED <<loggers, Others>>

GetLogger ==
    \E t \in Threads :
        /\ frames[t].pc = "getLogger"
        /\ loggers' = get_logger_step(loggers, frames[t]).reg
        /\ frames' = [frames EXCEPT ![t] = get_logger_step(loggers, frames[t]).f]
        /\ UNCHANGED Others

Check ==
    \E t \in Threads :
        /\ frames[t].pc = "check"
        /\ loggers' = check_step(loggers, frames[t]).reg
        /\ frames' = [frames EXCEPT ![t] = check_step(loggers, frames[t]).f]
        /\ UNCHANGED Others

SetLevel ==
    \E t \in Threads :
        /\ frames[t].pc = "setLevel"
        /\ loggers' = set_level_step(loggers, frames[t]).reg
        /\ frames' = [frames EXCEPT ![t] = set_level_step(loggers, frames[t]).f]
        /\ UNCHANGED Others

MakeHandler ==
    \E t \in Threads :
        /\ frames[t].pc = "makeHandler"
        /\ loggers' = make_handler_step(loggers, frames[t]).reg
        /\ frames' = [frames EXCEPT ![t] = make_handler_step(loggers, frames[t]).f]
        /\ UNCHANGED Others

AddHandler ==
    \E t \in Threads :
        /\ frames[t].pc = "addHandler"
        /\ loggers' = add_handler_step(loggers, frames[t]).reg
        /\ frames' = [frames EXCEPT ![t] = add_handler_step(loggers, frames[t]).f]
        /\ UNCHANGED Others

NextThreads == Call \/ GetLogger \/ Check \/ SetLevel \/ MakeHandler \/ AddHandler

SpecThreads == InitThreads /\ [][NextThreads]_vars

(* C3 *)

\* the threads that ran to the end for name n after a check that found no
\* handler of that name
Attached(n) ==
    { t \in Threads : /\ frames[t].pc = "done"
                      /\ frames[t].name = n
                      /\ ~frames[t].found
                      /\ ~frames[t].raised }

\* C3: the attach is not conditional on the check still holding: every thread
\* whose check found no handler of its name and that ran to its end attached
\* a handler of its own, so two threads that both pass the check leave two
\* handlers of that name on the logger.
C3_RaceDuplicatesHandlers ==
    \A n \in ThreadNames :
        Cardinality(HandlersNamed(LoggerFor(n), n)) = Cardinality(Attached(n))

\* both threads passed the check for "app" and both attached
C3_Witness ==
    /\ \E t1, t2 \in Threads :
          /\ t1 # t2
          /\ {t1, t2} \subseteq Attached(PyStr(APP))
    /\ Cardinality(HandlersNamed(APP, PyStr(APP))) = 2

=============================================================================
